---- MODULE Spec2Model ----
(***************************************************************************)
(* Model of certbot_dns_gratisdns/dns_gratisdns.py: the Authenticator's    *)
(* _perform / _cleanup entry points and the _GratisDnsClient they drive.   *)
(*                                                                         *)
(* Text is a sequence of symbols.  Domain names are words over NameChars.   *)
(* Three literals of the source are     *)
(* abbreviated to short words, each compared exactly as the source         *)
(* compares the long one: the account name (Username), the success marker  *)
(* "Record was deleted" (Marker) and the deletion link                     *)
(* "action=dns_primary_delete_txt&id=<digits>" (one symbol per id, see     *)
(* LinkTok).  A request with its response is one action and the code that  *)
(* runs on the response is the next; a local (response) is dropped when    *)
(* the function holding it returns.                                        *)
(***************************************************************************)
EXTENDS Integers, Sequences, FiniteSets, TLC

VARIABLES
    pc,                      \* position inside add_txt_record / del_txt_record
    op,                      \* "add" (_perform) or "del" (_cleanup)
    full_domain,             \* argument full_domain
    validation_domain_name,  \* argument validation_domain_name
    validation,              \* argument validation
    session,                 \* the client's requests.Session: [id, cookies]
    requests,                \* requests sent by the current call, in order
    response,                \* response.text of the latest request
    listing,                 \* the provider's records behind a listing response
    record_id,               \* result of get_txt_record_id
    owner,                   \* history: the value of the record record_id belongs to
    result,                  \* how the latest call ended
    calls                    \* number of _perform/_cleanup calls made

vars == <<pc, op, full_domain, validation_domain_name, validation, session,
          requests, response, listing, record_id, owner, result, calls>>

-----------------------------------------------------------------------------
(* Bounds *)

MaxLabel == 2

MaxBody == 3

MaxRecords == 2

MaxCalls == 2

-----------------------------------------------------------------------------
(* Program constants *)

Ttl == 60

Username == <<"u", "v">>

Marker == <<"R", "D">>

-----------------------------------------------------------------------------
(* Text *)

SeqsUpTo(S, n) == UNION {[1..k -> S] : k \in 0..n}

NameChars == {"a", "."}

Labels == SeqsUpTo(NameChars, MaxLabel) \ {<<>>}

Validations == {<<"t">>, <<"t", "t">>}

\* needle in hay
IsSubstring(needle, hay) ==
    \E i \in 0..(Len(hay) - Len(needle)) :
        SubSeq(hay, i + 1, i + Len(needle)) = needle

\* s.endswith(suffix)
EndsWith(s, suffix) ==
    /\ Len(suffix) <= Len(s)
    /\ SubSeq(s, Len(s) - Len(suffix) + 1, Len(s)) = suffix

\* the 0-based start offsets at which sep occurs in s
Occurrences(s, sep) ==
    {i \in 0..(Len(s) - Len(sep)) : SubSeq(s, i + 1, i + Len(sep)) = sep}

Max(S) == CHOOSE x \in S : \A y \in S : y <= x

Min(S) == CHOOSE x \in S : \A y \in S : x <= y

\* s.partition(sep)[0]: split at the first occurrence (not what the code calls)
PartitionHead(s, sep) ==
    IF Occurrences(s, sep) = {} THEN s
    ELSE SubSeq(s, 1, Min(Occurrences(s, sep)))

\* s.rpartition(sep)[0]: split at the last occurrence; '' when sep is absent
RPartitionHead(s, sep) ==
    IF Occurrences(s, sep) = {} THEN <<>>
    ELSE SubSeq(s, 1, Max(Occurrences(s, sep)))

\* validation_domain_name.endswith("." + full_domain)
SuffixOk(vdn, domain) == EndsWith(vdn, <<".">> \o domain)

\* sub_domain cut at the first "." + full_domain instead of the last
SubDomainFirst(vdn, domain) == PartitionHead(vdn, <<".">> \o domain)

\* sub_domain = validation_domain_name.rpartition("." + full_domain)[0]
SubDomain(vdn, domain) == RPartitionHead(vdn, <<".">> \o domain)

-----------------------------------------------------------------------------------------------------------------------------------------------------
(* The listing page.  The provider numbers its records 1, 2, ...; a record *)
(* is shown as ">" value "<" and, when it can be deleted, its deletion     *)
(* link, which carries the record's number.                                *)

LinkIds == 1..MaxRecords

\* the symbol for "action=dns_primary_delete_txt&id=n"
LinkTok(n) == ToString(n)

LinkToks == {LinkTok(n) : n \in LinkIds}

\* int(mo.group(1))
LinkId(tok) == CHOOSE n \in LinkIds : LinkTok(n) = tok

RecordValues == {<<"t">>, <<"t", "t">>, <<"s", "t">>}

Records == [value : RecordValues, link : BOOLEAN]

Pages == SeqsUpTo(Records, MaxRecords)

RECURSIVE RenderFrom(_, _)
RenderFrom(page, k) ==
    IF k > Len(page) THEN <<>>
    ELSE <<">">> \o page[k].value \o <<"<">>
         \o (IF page[k].link THEN <<LinkTok(k)>> ELSE <<>>)
         \o RenderFrom(page, k + 1)

Render(page) == RenderFrom(page, 1)

\* positions i with text[i] = ">" directly followed by the value, and a
\* deletion link somewhere after the value: the starts at which the pattern
\* r">VALUE.*?action=dns_primary_delete_txt(?:&|&amp;)id=([0-9]+)" (re.S) matches
MatchStarts(value, text) ==
    {i \in 1..Len(text) :
        /\ text[i] = ">"
        /\ i + Len(value) <= Len(text)
        /\ SubSeq(text, i + 1, i + Len(value)) = value
        /\ \E j \in (i + Len(value) + 1)..Len(text) : text[j] \in LinkToks}

\* re.search: the leftmost start, then the lazy .*? stops at the nearest link
ReSearch(value, text) ==
    IF MatchStarts(value, text) = {} THEN [matched |-> FALSE, id |-> 0]
    ELSE LET i == Min(MatchStarts(value, text))
             j == Min({k \in (i + Len(value) + 1)..Len(text) : text[k] \in LinkToks})
         IN  [matched |-> TRUE, id |-> LinkId(text[j])]

NoRecord == [kind |-> "None", id |-> 0]

ParseFailed == [kind |-> "ParseError", id |-> 0]

\* get_txt_record_id with the commented-out raise in place of "return None"
get_txt_record_id_raising(value, text) ==
    IF ~IsSubstring(value, text) THEN ParseFailed
    ELSE IF ~ReSearch(value, text).matched THEN ParseFailed
    ELSE [kind |-> "id", id |-> ReSearch(value, text).id]

\* get_txt_record_id returning None whenever the pattern does not match
get_txt_record_id_lenient(value, text) ==
    IF ~IsSubstring(value, text) THEN NoRecord
    ELSE IF ~ReSearch(value, text).matched THEN NoRecord
    ELSE [kind |-> "id", id |-> ReSearch(value, text).id]

\* get_txt_record_id, on the text of the listing response
get_txt_record_id(value, text) ==
    IF ~IsSubstring(value, text) THEN NoRecord
    ELSE IF ~ReSearch(value, text).matched THEN ParseFailed
    ELSE [kind |-> "id", id |-> ReSearch(value, text).id]

-----------------------------------------------------------------------------
(* Requests *)

Request(method, action, data_action) ==
    [method |-> method, action |-> action, data_action |-> data_action,
     session |-> session.id, auth |-> session.cookies,
     login |-> <<>>, name |-> <<>>, ttl |-> 0, txtdata |-> <<>>,
     user_domain |-> <<>>, id |-> 0]

LoginRequest ==
    [Request("POST", "", "logmein") EXCEPT !.login = Username]

ProfileRequest == Request("GET", "usersetup_user", "")

DomainListRequest == Request("GET", "dns_primarydns", "")

\* the add request with the whole validation_domain_name as its user_domain
AddRequestWrongDomain(domain, vdn, value) ==
    [Request("POST", "dns_primary_record_add_txt", "dns_primary_record_added_txt")
        EXCEPT !.name = SubDomain(vdn, domain), !.ttl = Ttl,
               !.txtdata = value, !.user_domain = vdn]

AddRequest(domain, vdn, value) ==
    [Request("POST", "dns_primary_record_add_txt", "dns_primary_record_added_txt")
        EXCEPT !.name = SubDomain(vdn, domain), !.ttl = Ttl,
               !.txtdata = value, !.user_domain = domain]

ListingRequest(domain) ==
    [Request("GET", "dns_primary_changeDNSsetup", "") EXCEPT !.user_domain = domain]

DeleteRequest(id, domain) ==
    [Request("GET", "dns_primary_delete_txt", "")
        EXCEPT !.id = id, !.user_domain = domain]

\* login never raising
LoginFailedNever(username, text) == FALSE

\* login: self.username not in response.text
LoginFailed(username, text) == ~IsSubstring(username, text)

\* check_domain comparing the whole body with the domain
DomainMissingExact(domain, text) == text # domain

\* check_domain: full_domain not in response.text
DomainMissing(domain, text) == ~IsSubstring(domain, text)

\* del_txt_record treating every response as a success
DeletionFailedNever(text) == FALSE

\* del_txt_record: "Record was deleted" not in response.text
DeletionFailed(text) == ~IsSubstring(Marker, text)

\* a client that keeps the session of the previous call
KeptSession(s) == IF s.id = 0 THEN [id |-> 1, cookies |-> FALSE] ELSE s

\* _GratisDnsClient.__init__: self.session = requests.Session()
NewSession(s) == [id |-> s.id + 1, cookies |-> FALSE]

-----------------------------------------------------------------------------
(* Operations *)

Init ==
    /\ pc = "idle"
    /\ op = "none"
    /\ full_domain = <<>>
    /\ validation_domain_name = <<>>
    /\ validation = <<>>
    /\ session = [id |-> 0, cookies |-> FALSE]
    /\ requests = <<>>
    /\ response = <<>>
    /\ listing = <<>>
    /\ record_id = NoRecord
    /\ owner = <<>>
    /\ result = "none"
    /\ calls = 0

\* raise: the exception leaves add_txt_record / del_txt_record.  The code
\* raises Exception (AssertionError for the assert) at five places; kind
\* names the place: AuthenticationError (line 104), DomainNotFoundError
\* (110), PreconditionError (118, 151), ParseError (145) and
\* DeletionFailedError (162)
Raise(kind) == pc' = "done" /\ result' = kind

\* return from add_txt_record / del_txt_record
Return == pc' = "done" /\ result' = "ok"

\* _perform / _cleanup up to the first request: _get_gratisdns_client()
\* builds a new client, whose method is entered with the caller's arguments
Call(o) ==
    /\ pc = "idle"
    /\ calls < MaxCalls
    /\ \E domain \in Labels, sub \in Labels, dot \in BOOLEAN, value \in Validations :
        /\ full_domain' = domain
        /\ validation_domain_name' =
              (IF dot THEN sub \o <<".">> \o domain ELSE sub \o domain)
        /\ validation' = value
    /\ op' = o
    /\ session' = NewSession(session)
    /\ result' = "running"
    /\ calls' = calls + 1
    /\ pc' = "login_post"
    /\ UNCHANGED <<requests, response, listing, record_id, owner>>

Perform == Call("add")

Cleanup == Call("del")

\* login: the POST of the credentials; the provider's answer sets the cookie
LoginPost ==
    /\ pc = "login_post"
    /\ requests' = Append(requests, LoginRequest)
    /\ session' = [session EXCEPT !.cookies = TRUE]
    /\ pc' = "login_get"
    /\ UNCHANGED <<op, full_domain, validation_domain_name, validation,
                   response, listing, record_id, owner, result, calls>>

\* login: the GET of the profile page
LoginGet ==
    /\ pc = "login_get"
    /\ requests' = Append(requests, ProfileRequest)
    /\ response' \in SeqsUpTo({"u", "v"}, MaxBody)
    /\ pc' = "login_test"
    /\ UNCHANGED <<op, full_domain, validation_domain_name, validation,
                   session, listing, record_id, owner, result, calls>>

\* login: the test on the profile page, then the raise or the return
LoginTest ==
    /\ pc = "login_test"
    /\ IF LoginFailed(Username, response)
       THEN Raise("AuthenticationError") /\ UNCHANGED response
       ELSE pc' = "domain_get" /\ response' = <<>> /\ UNCHANGED result
    /\ UNCHANGED <<op, full_domain, validation_domain_name, validation,
                   session, requests, listing, record_id, owner, calls>>

\* check_domain: the GET of the domain list
CheckDomainGet ==
    /\ pc = "domain_get"
    /\ requests' = Append(requests, DomainListRequest)
    /\ response' \in SeqsUpTo(NameChars, MaxBody)
    /\ pc' = "domain_test"
    /\ UNCHANGED <<op, full_domain, validation_domain_name, validation,
                   session, listing, record_id, owner, result, calls>>

\* check_domain: the test on the domain list, then the raise or the return
CheckDomainTest ==
    /\ pc = "domain_test"
    /\ IF DomainMissing(full_domain, response)
       THEN Raise("DomainNotFoundError") /\ UNCHANGED response
       ELSE pc' = "assert" /\ response' = <<>> /\ UNCHANGED result
    /\ UNCHANGED <<op, full_domain, validation_domain_name, validation,
                   session, requests, listing, record_id, owner, calls>>

\* assert validation_domain_name.endswith("." + full_domain)
AssertSuffix ==
    /\ pc = "assert"
    /\ IF ~SuffixOk(validation_domain_name, full_domain)
       THEN Raise("PreconditionError")
       ELSE /\ pc' = (IF op = "add" THEN "add_post" ELSE "listing_get")
            /\ UNCHANGED result
    /\ UNCHANGED <<op, full_domain, validation_domain_name, validation,
                   session, requests, response, listing, record_id, owner, calls>>

\* add_txt_record: the POST of the record; its response is not looked at
AddPost ==
    /\ pc = "add_post"
    /\ requests' = Append(requests,
                          AddRequest(full_domain, validation_domain_name, validation))
    /\ Return
    /\ UNCHANGED <<op, full_domain, validation_domain_name, validation,
                   session, response, listing, record_id, owner, calls>>

\* get_txt_record_id: the GET of the record listing
ListingGet ==
    /\ pc = "listing_get"
    /\ requests' = Append(requests, ListingRequest(full_domain))
    /\ listing' \in Pages
    /\ response' = Render(listing')
    /\ pc' = "listing_scan"
    /\ UNCHANGED <<op, full_domain, validation_domain_name, validation,
                   session, record_id, owner, result, calls>>

\* get_txt_record_id: the scan of the listing, and del_txt_record's test
\* "record_id is None"
ListingScan ==
    /\ pc = "listing_scan"
    /\ LET r == get_txt_record_id(validation, response) IN
        CASE r.kind = "ParseError" ->
                /\ Raise("ParseError")
                /\ UNCHANGED <<record_id, owner, response, listing>>
          [] r.kind = "None" ->
                /\ Return
                /\ record_id' = r
                /\ UNCHANGED <<owner, response, listing>>
          [] OTHER ->
                /\ pc' = "delete_get"
                /\ record_id' = r
                /\ owner' = listing[r.id].value
                /\ response' = <<>>
                /\ listing' = <<>>
                /\ UNCHANGED result
    /\ UNCHANGED <<op, full_domain, validation_domain_name, validation,
                   session, requests, calls>>

\* del_txt_record: the deletion request
DeleteGet ==
    /\ pc = "delete_get"
    /\ requests' = Append(requests, DeleteRequest(record_id.id, full_domain))
    /\ response' \in SeqsUpTo({"R", "D"}, MaxBody)
    /\ pc' = "delete_test"
    /\ UNCHANGED <<op, full_domain, validation_domain_name, validation,
                   session, listing, record_id, owner, result, calls>>

\* del_txt_record: the test on the deletion response
DeleteTest ==
    /\ pc = "delete_test"
    /\ IF DeletionFailed(response)
       THEN Raise("DeletionFailedError")
       ELSE Return
    /\ UNCHANGED <<op, full_domain, validation_domain_name, validation,
                   session, requests, response, listing, record_id, owner, calls>>

\* _perform / _cleanup hand control back to the host: the client, its
\* arguments and everything it received are dropped with it
Finish ==
    /\ pc = "done"
    /\ pc' = "idle"
    /\ op' = "none"
    /\ full_domain' = <<>>
    /\ validation_domain_name' = <<>>
    /\ validation' = <<>>
    /\ requests' = <<>>
    /\ response' = <<>>
    /\ listing' = <<>>
    /\ record_id' = NoRecord
    /\ owner' = <<>>
    /\ result' = "none"
    /\ UNCHANGED <<session, calls>>

Next ==
    \/ Perform
    \/ Cleanup
    \/ LoginPost
    \/ LoginGet
    \/ LoginTest
    \/ CheckDomainGet
    \/ CheckDomainTest
    \/ AssertSuffix
    \/ AddPost
    \/ ListingGet
    \/ ListingScan
    \/ DeleteGet
    \/ DeleteTest
    \/ Finish

Spec == Init /\ [][Next]_vars

-----------------------------------------------------------------------------
(* Properties *)

LastRequest == requests[Len(requests)]

IsLogin(r) == r.method = "POST" /\ r.data_action = "logmein"

IsProfile(r) == r.method = "GET" /\ r.action = "usersetup_user"

IsDomainList(r) == r.method = "GET" /\ r.action = "dns_primarydns"

IsListing(r) == r.action = "dns_primary_changeDNSsetup"

IsAdd(r) == r.method = "POST" /\ r.data_action = "dns_primary_record_added_txt"

IsDelete(r) == r.action = "dns_primary_delete_txt"

Sent(log, P(_)) == {i \in DOMAIN log : P(log[i])}

\* no listing, add-record or delete-record request in the log
NoRecordRequest(log) ==
    Sent(log, IsListing) \cup Sent(log, IsAdd) \cup Sent(log, IsDelete) = {}

\* the value occurs right after a ">" and a deletion link follows it,
\* whatever lies between them
ValueThenLink(value, text) ==
    \E i \in 1..Len(text) : \E j \in 1..Len(text) :
        /\ text[i] = ">"
        /\ i + Len(value) < j
        /\ \A k \in 1..Len(value) : text[i + k] = value[k]
        /\ text[j] \in LinkToks

\* C1: when validation_domain_name does not end with "." + full_domain, the
\* call has sent no request at all.
C1_NoRequestWhenPreconditionFails ==
    (pc # "idle" /\ ~EndsWith(validation_domain_name, <<".">> \o full_domain))
        => requests = <<>>

\* C2: when the profile page fetched by login() does not contain the
\* username, the call ends with AuthenticationError after its one login
\* (one POST, one profile GET) and sends nothing more.
C2_LoginRejected ==
    [][ /\ (pc = "login_test" /\ ~IsSubstring(Username, response))
            => /\ pc' = "done"
               /\ result' = "AuthenticationError"
               /\ requests' = requests
        /\ result = "AuthenticationError"
            => /\ Len(requests) = 2
               /\ Cardinality(Sent(requests, IsLogin)) = 1
               /\ NoRecordRequest(requests)
               /\ Sent(requests, IsDomainList) = {}
               /\ pc' = "idle"
               /\ requests' = <<>> ]_vars

C2_Witness ==
    /\ pc = "done"
    /\ result = "AuthenticationError"
    /\ IsProfile(LastRequest)
    /\ response # <<>>

\* C3: after a successful login, check_domain raises DomainNotFoundError
\* exactly when full_domain is not a substring of the domain list, and a
\* call it aborts has sent no listing, add or delete request and sends none.
C3_DomainCheck ==
    [][ /\ pc = "domain_test"
            => /\ (pc' = "done" /\ result' = "DomainNotFoundError")
                    <=> ~IsSubstring(full_domain, response)
               /\ IsSubstring(full_domain, response)
                    => (pc' = "assert" /\ result' = "running")
               /\ requests' = requests
        /\ result = "DomainNotFoundError"
            => /\ NoRecordRequest(requests)
               /\ pc' = "idle"
               /\ requests' = <<>> ]_vars

C3_Witness ==
    /\ pc = "done"
    /\ result = "DomainNotFoundError"
    /\ IsDomainList(LastRequest)
    /\ response # <<>>

\* C4: a successful add_txt_record(apex, sub + "." + apex, value) has sent
\* exactly the login POST, the profile GET, the domain-list GET and one
\* add-record POST with name = sub, txtdata = value, user_domain = apex, in
\* that order, and no delete request.
C4_AddSequence ==
    (pc = "done" /\ op = "add" /\ result = "ok") =>
        /\ Len(requests) = 4
        /\ IsLogin(requests[1])
        /\ IsProfile(requests[2])
        /\ IsDomainList(requests[3])
        /\ IsAdd(requests[4])
        /\ Sent(requests, IsAdd) = {4}
        /\ Sent(requests, IsDelete) = {}
        /\ requests[4].txtdata = validation
        /\ requests[4].user_domain = full_domain
        /\ validation_domain_name =
              requests[4].name \o <<".">> \o requests[4].user_domain

C4_Witness ==
    /\ pc = "done"
    /\ op = "add"
    /\ result = "ok"
    /\ Len(requests[4].name) > 0

\* C5: in del_txt_record, when the listing does not contain the validation
\* value, get_txt_record_id returns None and the call returns successfully
\* without a delete request.
C5_AbsentValueIsSuccess ==
    [][ /\ (pc = "listing_scan" /\ ~IsSubstring(validation, response))
            => /\ pc' = "done"
               /\ result' = "ok"
               /\ record_id' = NoRecord
               /\ requests' = requests
        /\ (pc = "done" /\ op = "del" /\ record_id.kind = "None")
            => /\ Sent(requests, IsDelete) = {}
               /\ requests' = <<>> ]_vars

C5_Witness ==
    /\ pc = "done"
    /\ op = "del"
    /\ result = "ok"
    /\ IsListing(LastRequest)
    /\ listing # <<>>
    /\ ~IsSubstring(validation, response)

C7_DeletionVerified ==
    /\ Cardinality(Sent(requests, IsDelete)) <= 1
    /\ (requests # <<>> /\ IsDelete(LastRequest)) =>
        /\ pc \in {"delete_test", "done"}
        /\ record_id.kind = "id"
        /\ LastRequest.id = record_id.id
        /\ LastRequest.user_domain = full_domain
        /\ pc = "done" =>
            /\ result = "ok" <=> IsSubstring(Marker, response)
            /\ result = "DeletionFailedError" <=> ~IsSubstring(Marker, response)

C7_Witness ==
    /\ pc = "done"
    /\ result = "DeletionFailedError"
    /\ IsDelete(LastRequest)
    /\ response # <<>>

\* C8: for all non-empty sub and apex, add_txt_record called with
\* validation_domain_name = sub + "." + apex sends name = sub.
C8_SubDomainExact ==
    \A i \in Sent(requests, IsAdd) : \A sub \in Labels :
        validation_domain_name = sub \o <<".">> \o full_domain
            => requests[i].name = sub

\* "." + apex occurs more than once in the validation name
C8_Witness ==
    /\ Sent(requests, IsAdd) # {}
    /\ \E sub \in Labels : validation_domain_name = sub \o <<".">> \o full_domain
    /\ Cardinality(Occurrences(validation_domain_name, <<".">> \o full_domain)) > 1

\* C9: every perform / cleanup call works on a session created for it, which
\* holds no cookie when the call starts; all the call's requests go through
\* that session and the first of them is the login POST, sent without a
\* cookie.
C9_FreshSessionPerCall ==
    /\ pc # "idle" => session.id = calls
    /\ pc = "login_post" => (~session.cookies /\ requests = <<>>)
    /\ pc \notin {"idle", "login_post"} => requests # <<>>
    /\ \A i \in DOMAIN requests : requests[i].session = calls
    /\ requests # <<>> => (IsLogin(requests[1]) /\ ~requests[1].auth)

C9_Witness ==
    /\ calls > 1
    /\ Len(requests) > 1

\* C10: the id of every delete request is the id of a listed record whose
\* value is exactly the validation value.
C10_DeletesOnlyExactMatch ==
    \A i \in Sent(requests, IsDelete) : owner = validation

====
